---- MODULE Spec2Model ----
(***************************************************************************)
(* Resumable paginated ingestion of Steam reviews (ingest_steam.client,    *)
(* pipelines.steam_reviews_poc) and of Trakt comments (ingest_trakt.client,*)
(* orchestration.assets) as one state machine.  A behaviour is one process *)
(* that runs either the Prefect flow steam_reviews_flow (Spec), one entity *)
(* after the other and possibly several runs in a row against the same     *)
(* DuckDB warehouse, or the Dagster asset bronze_trakt_comments            *)
(* (TraktSpec), or compute_hash alone on two dicts (HashSpec).             *)
(*                                                                         *)
(* Encoding of Python values: None of a string-typed slot is the string    *)
(* None, None of a datetime-typed slot is NoTime; a dict is a function     *)
(* from its keys; time is counted in clock ticks.                          *)
(***************************************************************************)
EXTENDS Integers, Sequences, FiniteSets, TLC

VARIABLES
    settings,         \* SteamSettings / TraktSettings (read-only)
    config,           \* PipelineConfig (read-only)
    clock,            \* wall clock, in ticks
    api,              \* what the Steam endpoint serves per (app, cursor)
    flow,             \* steam_reviews_flow: locals and position
    task,             \* ingest_app_reviews + ingest_reviews: locals and position
    iter,             \* iter_reviews generator: locals and position
    get,              \* _get: locals and position
    ledger,           \* table bronze.steam_reviews_raw
    load_watermarks,  \* table bronze.load_watermarks
    trakt,            \* bronze_trakt_comments + iter_comments: locals and position
    hist,             \* history of the current page stream (observation only)
    probe             \* compute_hash called on its own: arguments and results

vars == <<settings, config, clock, api, flow, task, iter, get, ledger,
          load_watermarks, trakt, hist, probe>>

----------------------------------------------------------------------------
(* Bounds of the model *)

MaxRuns == 2          \* flow runs of one behaviour
MaxRetriesBound == 2  \* largest max_retries setting explored
MaxTraktPage == 3     \* last page number the Trakt endpoint is asked for

TicksPerSecond == 4   \* clock ticks per second of strftime("%Y%m%dT%H%M%S")

None == "None"
NoTime == -1

----------------------------------------------------------------------------
(* Inputs *)

\* cursor values as the endpoint receives them in the query
Cursors == {"*", "abc", "a%2Bb"}

\* Source records as the endpoint returns them (before enrichment).
RevA == [recommendationid |-> "r1", timestamp_updated |-> "1"]
RevB == [recommendationid |-> "r2", timestamp_updated |-> "2"]
RevNoKey == [timestamp_updated |-> "3"]
RevBadTs == [recommendationid |-> "r3", timestamp_updated |-> "soon"]
RevInvalid == [recommendationid |-> "r4", voted_up |-> "maybe"]

BodyTwo == <<RevA, RevB>>
BodyOdd == <<RevNoKey, RevBadTs>>
BodyInvalid == <<RevA, RevInvalid>>
BodyNoKey == <<RevNoKey>>

\* payload = response.json() of a 200 answer of /appreviews/{app_id}
Payloads ==
    [success : {1}, reviews : {BodyTwo}, cursor : {None, "*", "abc", "a+b"}]
    \cup [success : {1}, reviews : {BodyOdd}, cursor : {None, "abc"}]
    \cup { [success |-> 1, reviews |-> BodyInvalid, cursor |-> "abc"],
           [success |-> 1, reviews |-> BodyNoKey, cursor |-> None],
           [success |-> 1, reviews |-> <<>>, cursor |-> "abc"],
           [success |-> 0, reviews |-> <<>>, cursor |-> None],
           [success |-> 0, reviews |-> BodyTwo, cursor |-> "abc"] }

Unset == [success |-> -1, reviews |-> <<>>, cursor |-> None]

Statuses == {200, 429, 500}

\* value of the Retry-After header of a 429 answer (None: header absent)
RetryAfterVals == {None, "0", "3"}

Apps == {"620", "730"}

\* SteamSettings as far as _get reads it
Settings(max_retries) == [max_retries |-> max_retries, backoff_seconds |-> 2]

\* PipelineConfig as far as the ingestion reads it
Config(app_ids, max_pages, warehouse) ==
    [app_ids |-> app_ids, max_pages |-> max_pages, warehouse |-> warehouse]

\* The runs explored: the configuration, the settings and how often the operator
\* launches the flow
Scenarios ==
    { [config |-> Config(<<"620", "730">>, 2, TRUE), settings |-> Settings(0),
       launches |-> 1],
      [config |-> Config(<<"620">>, 3, TRUE), settings |-> Settings(0),
       launches |-> MaxRuns],
      [config |-> Config(<<"620">>, 1, FALSE), settings |-> Settings(0),
       launches |-> 1],
      [config |-> Config(<<"620", "620">>, 1, TRUE), settings |-> Settings(0),
       launches |-> 1] }
    \cup [config : {Config(<<"620">>, 2, TRUE)},
          settings : {Settings(n) : n \in 0..MaxRetriesBound},
          launches : {1}]

----------------------------------------------------------------------------
(* Pure functions *)

\* load_id = ingested_at.strftime("%Y%m%dT%H%M%S"): the clock cut to whole seconds
LoadId(now) == now \div TicksPerSecond

\* dict.get(key): None when the key is absent
Get(d, k) == IF k \in DOMAIN d THEN d[k] ELSE None

\* int(value) on the values the endpoint serves; -1 stands for ValueError
IntOf(s) ==
    CASE s = "0" -> 0 [] s = "1" -> 1 [] s = "2" -> 2 [] s = "3" -> 3
      [] OTHER -> -1

parse_review_timestamp_Epoch(value) ==
    IF value = None THEN NoTime
    ELSE IF IntOf(value) < 0 THEN 0
    ELSE IntOf(value)

\* parse_review_timestamp: None for None and for what int() rejects
parse_review_timestamp(value) ==
    IF value = None THEN NoTime
    ELSE IF IntOf(value) < 0 THEN NoTime
    ELSE IntOf(value)

\* json.dumps(payload, sort_keys=True): the (key, value) pairs in key order
KeyOrder == <<"app_id", "cursor", "fetched_at", "page", "recommendationid",
              "timestamp_updated", "voted_up">>

\* compute_hash; SHA-256 is taken as injective on the serialisation
compute_hash(payload) ==
    LET IsKey(k) == k \in DOMAIN payload
        keys == SelectSeq(KeyOrder, IsKey)
    IN  [n \in 1..Len(keys) |-> <<keys[n], payload[keys[n]]>>]

\* schema.validate(review): TRUE when it does not raise
SchemaValid(review) ==
    "voted_up" \in DOMAIN review => review["voted_up"] \in {"true", "false"}

SleepSeconds_FromZero(retry_after, backoff_seconds, attempt) ==
    IF retry_after # None THEN IntOf(retry_after) ELSE backoff_seconds * (attempt - 1)

\* float(retry_after or backoff_seconds * attempt), in seconds; a header value
\* is a non-empty string, so it is taken whatever number it spells
SleepSeconds(retry_after, backoff_seconds, attempt) ==
    IF retry_after # None THEN IntOf(retry_after) ELSE backoff_seconds * attempt

ShouldRetry_OneMore(status, attempt, max_retries) ==
    status = 429 /\ attempt <= max_retries + 1

\* the branch of _get that sleeps and retries
ShouldRetry(status, attempt, max_retries) ==
    status = 429 /\ attempt <= max_retries

RaisesForStatus_ClientErrorsOnly(status) == status >= 400 /\ status < 500

\* response.raise_for_status() raises
RaisesForStatus(status) == status < 200 \/ status >= 300

\* _encode_cursor: "*" as it is, else quote(cursor, safe=""), which leaves
\* letters as they are and writes "+" as "%2B"
encode_cursor(cursor) ==
    CASE cursor = "*" -> cursor
      [] cursor = "a+b" -> "a%2Bb"
      [] OTHER -> cursor

\* the enrichment iter_reviews applies before it yields a review
Enrich(review, app_id, page, cursor, now) ==
    [k \in DOMAIN review \cup {"app_id", "page", "cursor", "fetched_at"} |->
        CASE k = "app_id" -> app_id
          [] k = "page" -> page
          [] k = "cursor" -> cursor
          [] k = "fetched_at" -> now
          [] OTHER -> review[k]]

StopOnCursor_NoStallGuard(next_cursor, cursor) == next_cursor = None

\* "if not next_cursor or next_cursor == cursor: break"
StopOnCursor(next_cursor, cursor) == next_cursor = None \/ next_cursor = cursor

CapReached_Early(page, max_pages) == page >= max_pages

CapReached_Late(page, max_pages) == page > max_pages + 1

EnvelopeFailed_Never(payload) == FALSE

\* "if payload.get("success") != 1: ... break"
EnvelopeFailed(payload) == payload.success # 1

GatePasses_FirstOnly(reviews) == reviews = <<>> \/ SchemaValid(reviews[1])

\* "for review in reviews: schema.validate(review)" runs through without raising
GatePasses(reviews) == \A n \in 1..Len(reviews) : SchemaValid(reviews[n])

\* "if max_pages is not None and page > max_pages: break", page already incremented
CapReached(page, max_pages) == page > max_pages

FoldCursor_KeepFirst(last_cursor, review) ==
    IF last_cursor # None THEN last_cursor ELSE Get(review, "cursor")

\* last_cursor = str(review.get("cursor")) if review.get("cursor") else last_cursor
FoldCursor(last_cursor, review) ==
    IF Get(review, "cursor") # None THEN Get(review, "cursor") ELSE last_cursor

\* the max_updated_at accumulator of ingest_reviews
FoldUpdatedAt(max_updated_at, review) ==
    LET updated_at == parse_review_timestamp(Get(review, "timestamp_updated"))
    IN  IF updated_at # NoTime /\ (max_updated_at = NoTime \/ updated_at > max_updated_at)
        THEN updated_at
        ELSE max_updated_at

insert_into_bronze_OwnStamp(table, review, load_id, ingested_at) ==
    IF Get(review, "app_id") = None \/ Get(review, "recommendationid") = None
    THEN table
    ELSE Append(table,
            [appid |-> Get(review, "app_id"),
             recommendationid |-> Get(review, "recommendationid"),
             updated_at |-> parse_review_timestamp(Get(review, "timestamp_updated")),
             ingested_at |-> review["fetched_at"],
             load_id |-> LoadId(review["fetched_at"]),
             hash_payload |-> compute_hash(review),
             cursor |-> Get(review, "cursor"),
             payload |-> review])

\* insert_into_bronze: the table after the call
insert_into_bronze(table, review, load_id, ingested_at) ==
    IF Get(review, "app_id") = None \/ Get(review, "recommendationid") = None
    THEN table
    ELSE Append(table,
            [appid |-> Get(review, "app_id"),
             recommendationid |-> Get(review, "recommendationid"),
             updated_at |-> parse_review_timestamp(Get(review, "timestamp_updated")),
             ingested_at |-> ingested_at,
             load_id |-> load_id,
             hash_payload |-> compute_hash(review),
             cursor |-> Get(review, "cursor"),
             payload |-> review])

\* insert_into_bronze: the value the call returns; "return" on the skip path and
\* falling off the end after the insert both give None
insert_into_bronze_returns(review) ==
    IF Get(review, "app_id") = None \/ Get(review, "recommendationid") = None
    THEN None
    ELSE None

\* record_watermark: the table after the call
record_watermark(table, watermark) ==
    Append(table,
        [appid |-> watermark.app_id,
         load_id |-> watermark.load_id,
         cursor |-> watermark.last_cursor,
         max_updated_at |-> watermark.max_updated_at,
         recorded_at |-> watermark.recorded_at])

close_Leak(handle) == handle

\* client.close() / conn.close(): the handle is not open afterwards
close(handle) == FALSE

AbortedLedger_RolledBack(table, start) == SubSeq(table, 1, start)

\* the ledger after an exception left ingest_reviews: each insert was executed
\* on its own, outside any transaction, and nothing undoes it
AbortedLedger(table, start) == table

prepare_bronze_storage_Recreate(table) == <<>>

\* prepare_bronze_storage: "create table if not exists" leaves a table that
\* exists, rows included, as it is; a new warehouse gets the empty table
prepare_bronze_storage(table) == table

----------------------------------------------------------------------------
(* State *)

NoResume == [cursor |-> None, page |-> 0]

\* SteamPaginationState values a caller can build from the persisted watermarks
ResumePages == {1, 2}

NoWatermark == [app_id |-> None, last_cursor |-> None, max_updated_at |-> NoTime,
                load_id |-> 0, recorded_at |-> 0]

IdleGet == [pc |-> "idle", attempt |-> 0, requests |-> 0, status |-> 0,
            sleeps |-> <<>>, retry_afters |-> <<>>, payload |-> Unset]

NewCall_KeepAttempt(previous) ==
    [IdleGet EXCEPT !.pc = "call", !.attempt = previous.attempt]

\* a call of _get begins: "attempt = 0", whatever the call before it did
NewCall(previous) == [IdleGet EXCEPT !.pc = "call"]

IdleIter == [pc |-> "idle", cursor |-> None, page |-> 0, reviews |-> <<>>,
             i |-> 0, next_cursor |-> None, why |-> "none"]

IdleTask == [pc |-> "idle", app_id |-> None, conn |-> FALSE, client |-> FALSE,
             count |-> 0, last_cursor |-> None, max_updated_at |-> NoTime,
             resumed |-> FALSE, ledger0 |-> 0, wm0 |-> 0,
             watermark |-> NoWatermark,
             written |-> "uncalled", before |-> 0]

IdleTrakt == [pc |-> "idle", page |-> 0, payload |-> <<>>, i |-> 0,
              collected |-> <<>>, client |-> FALSE, rows |-> 0, why |-> "none"]

IdleProbe == [pc |-> "idle", a |-> <<>>, b |-> <<>>, hash_a |-> <<>>, hash_b |-> <<>>]

NewHist == [emitted |-> <<>>, reqs |-> 0, fetches |-> 0, page0 |-> 0, first |-> <<>>,
            asked |-> None, from |-> None, term |-> FALSE, stall |-> FALSE,
            changed |-> FALSE]

Init ==
    /\ \E sc \in Scenarios :
        /\ settings = sc.settings
        /\ config = sc.config
        /\ flow = [pc |-> "idle", launches |-> sc.launches, run |-> 0, load_id |-> 0,
                   ingested_at |-> 0, idx |-> 0, watermarks |-> <<>>,
                   ledger0 |-> 0, wm0 |-> 0, natural |-> FALSE,
                   prevNatural |-> FALSE, prev_load_id |-> -1]
    /\ clock = 0
    /\ api = [k \in Apps \X Cursors |-> Unset]
    /\ task = IdleTask
    /\ iter = IdleIter
    /\ get = IdleGet
    /\ ledger = <<>>
    /\ load_watermarks = <<>>
    /\ trakt = IdleTrakt
    /\ hist = NewHist
    /\ probe = IdleProbe

----------------------------------------------------------------------------
(* Retrying fetcher: _get of SteamReviewsClient and of TraktClient *)

\* the termination rules of iter_reviews, read off one page response
Terminal(payload, cursor, page, max_pages) ==
    \/ payload.success # 1
    \/ payload.reviews = <<>>
    \/ payload.cursor = None
    \/ payload.cursor = cursor
    \/ page + 1 > max_pages

\* bronze_trakt_comments' endpoint answers a bare array; it is carried in the
\* reviews slot of the payload record
TraktC1 == [id |-> "c1"]
TraktC2 == [id |-> "c2"]
TraktBad == [id |-> "c3", voted_up |-> "maybe"]
TraktBodies == { <<>>, <<TraktC1, TraktC2>>, <<TraktC1, TraktBad>> }

\* what the endpoint answers with status 200 to the request in flight: the Steam
\* endpoint serves one fixed page per (app, cursor) until the source changes
Served(payload) ==
    IF iter.pc = "wait"
    THEN LET k == <<task.app_id, encode_cursor(iter.cursor)>>
         IN  /\ payload \in Payloads
             /\ api[k] # Unset => payload = api[k]
             /\ api' = [api EXCEPT ![k] = payload]
    ELSE /\ payload \in [success : {1}, reviews : TraktBodies, cursor : {None}]
         /\ api' = api

\* history of the stream after a 200 answer (observation only)
Observe(payload) ==
    IF iter.pc = "wait"
    THEN [hist EXCEPT
            !.reqs = @ + 1,
            !.first = IF iter.page = hist.page0 THEN payload.reviews ELSE @,
            !.term = Terminal(payload, iter.cursor, iter.page, config.max_pages),
            !.stall = payload.cursor = iter.cursor /\ iter.page > hist.page0]
    ELSE [hist EXCEPT !.reqs = @ + 1]

\* "time.sleep(sleep_seconds); continue"
get_retry(status, retry_after) ==
    LET attempt == get.attempt + 1
        secs == SleepSeconds(retry_after, settings.backoff_seconds, attempt)
    IN  /\ ShouldRetry(status, attempt, settings.max_retries)
        /\ get' = [get EXCEPT !.attempt = attempt, !.requests = @ + 1,
                              !.status = status, !.sleeps = Append(@, secs),
                              !.retry_afters = Append(@, retry_after)]
        /\ clock' = clock + 1 + secs * TicksPerSecond
        /\ hist' = [hist EXCEPT !.reqs = @ + 1]
        /\ api' = api

\* "response.raise_for_status()" raises HTTPStatusError
get_raise(status) ==
    LET attempt == get.attempt + 1
    IN  /\ ~ShouldRetry(status, attempt, settings.max_retries)
        /\ RaisesForStatus(status)
        /\ get' = [get EXCEPT !.pc = "raised", !.attempt = attempt,
                              !.requests = @ + 1, !.status = status]
        /\ clock' = clock + 1
        /\ hist' = [hist EXCEPT !.reqs = @ + 1]
        /\ api' = api

\* "return response"
get_return(status) ==
    LET attempt == get.attempt + 1
    IN  /\ ~ShouldRetry(status, attempt, settings.max_retries)
        /\ ~RaisesForStatus(status)
        /\ \E payload \in Payloads \cup
                          [success : {1}, reviews : TraktBodies, cursor : {None}] :
              /\ Served(payload)
              /\ get' = [get EXCEPT !.pc = "returned", !.attempt = attempt,
                                    !.requests = @ + 1, !.status = status,
                                    !.payload = payload]
              /\ hist' = Observe(payload)
        /\ clock' = clock + 1

\* one turn of the while loop of _get: a request and what follows its answer
get_attempt ==
    /\ get.pc = "call"
    /\ \E status \in Statuses :
          \/ \E retry_after \in RetryAfterVals : get_retry(status, retry_after)
          \/ get_raise(status)
          \/ get_return(status)
    /\ UNCHANGED <<probe, settings, config, flow, task, iter, ledger, load_watermarks, trakt>>

----------------------------------------------------------------------------
(* Cursor pagination driver: SteamReviewsClient.iter_reviews *)

\* top of the while loop: build the params and call _get
iter_fetch ==
    /\ iter.pc = "fetch"
    /\ iter' = [iter EXCEPT !.pc = "wait"]
    /\ get' = NewCall(get)
    /\ hist' = [hist EXCEPT !.asked = iter.cursor, !.fetches = @ + 1]
    /\ UNCHANGED <<probe, settings, config, clock, api, flow, task, ledger,
                   load_watermarks, trakt>>

\* from response.json() to the first yield: envelope check, schema gate, empty page
iter_page ==
    /\ iter.pc = "wait"
    /\ get.pc = "returned"
    /\ LET payload == get.payload
           reviews == payload.reviews
       IN  iter' =
             IF EnvelopeFailed(payload)
             THEN [iter EXCEPT !.pc = "done", !.why = "envelope"]
             ELSE IF ~GatePasses(reviews)
             THEN [iter EXCEPT !.pc = "raised", !.why = "schema", !.reviews = reviews]
             ELSE IF reviews = <<>>
             THEN [iter EXCEPT !.pc = "done", !.why = "empty", !.reviews = reviews]
             ELSE [iter EXCEPT !.pc = "emit", !.reviews = reviews, !.i = 1,
                               !.next_cursor = payload.cursor]
    /\ get' = [get EXCEPT !.pc = "idle"]
    /\ UNCHANGED <<probe, settings, config, clock, api, flow, task, ledger,
                   load_watermarks, trakt, hist>>

\* enrich review i in place and yield it
iter_yield ==
    /\ iter.pc = "emit"
    /\ LET review == Enrich(iter.reviews[iter.i], task.app_id, iter.page,
                            iter.cursor, clock)
       IN  /\ iter' = [iter EXCEPT !.pc = "yielded", !.reviews[iter.i] = review]
           /\ hist' = [hist EXCEPT !.emitted = Append(@, review), !.from = hist.asked]
    /\ UNCHANGED <<probe, settings, config, clock, api, flow, task, get, ledger,
                   load_watermarks, trakt>>

\* the generator is resumed after its last yield of the page: lines 123-129
iter_advance ==
    /\ iter.pc = "after"
    /\ iter' =
         IF StopOnCursor(iter.next_cursor, iter.cursor)
         THEN [iter EXCEPT !.pc = "done",
                  !.why = IF iter.next_cursor = None THEN "nocursor" ELSE "stall"]
         ELSE IF CapReached(iter.page + 1, config.max_pages)
         THEN [iter EXCEPT !.pc = "done", !.why = "cap",
                           !.cursor = iter.next_cursor, !.page = @ + 1]
         ELSE [iter EXCEPT !.pc = "fetch",
                           !.cursor = iter.next_cursor, !.page = @ + 1]
    /\ UNCHANGED <<probe, settings, config, clock, api, flow, task, get, ledger,
                   load_watermarks, trakt, hist>>

----------------------------------------------------------------------------
(* Ingestion of one entity: ingest_app_reviews and ingest_reviews *)

Max(S) == CHOOSE x \in S : \A y \in S : y <= x

\* the resume_state values a caller can pass to iter_reviews for an entity:
\* none, or the cursor of the entity's latest watermark with a page number
ResumeStates(app_id) ==
    LET rows == {n \in 1..Len(load_watermarks) : load_watermarks[n].appid = app_id}
    IN  IF rows = {} \/ load_watermarks[Max(rows \cup {1})].cursor = None
        THEN {NoResume}
        ELSE {NoResume} \cup
             [cursor : {load_watermarks[Max(rows)].cursor}, page : ResumePages]

\* the body of "for review in review_iterable", then next() on the generator
ingest_consume ==
    /\ task.pc = "running"
    /\ iter.pc = "yielded"
    /\ LET review == iter.reviews[iter.i]
       IN  /\ task' = [task EXCEPT
                  !.count = @ + 1,
                  !.last_cursor = FoldCursor(@, review),
                  !.max_updated_at = FoldUpdatedAt(@, review),
                  !.written = IF task.conn THEN insert_into_bronze_returns(review)
                              ELSE "uncalled",
                  !.before = Len(ledger)]
           /\ ledger' = IF task.conn
                        THEN insert_into_bronze(ledger, review, flow.load_id,
                                                flow.ingested_at)
                        ELSE ledger
    /\ iter' = IF iter.i < Len(iter.reviews)
               THEN [iter EXCEPT !.pc = "emit", !.i = @ + 1]
               ELSE [iter EXCEPT !.pc = "after"]
    /\ UNCHANGED <<probe, settings, config, clock, api, flow, get, load_watermarks,
                   trakt, hist>>

AbortedIngest_Recorded(table, watermark) == record_watermark(table, watermark)

\* the watermark table after an exception left ingest_reviews from inside its
\* for loop: line 319 is not reached
AbortedIngest(table, watermark) == table

\* the stream ended: build and record the watermark, return, release the handles
ingest_finish ==
    /\ task.pc = "running"
    /\ iter.pc = "done"
    /\ LET watermark == [app_id |-> task.app_id,
                         last_cursor |-> task.last_cursor,
                         max_updated_at |-> task.max_updated_at,
                         load_id |-> flow.load_id,
                         recorded_at |-> flow.ingested_at]
       IN  /\ load_watermarks' = IF task.conn
                                 THEN record_watermark(load_watermarks, watermark)
                                 ELSE load_watermarks
           /\ task' = [task EXCEPT !.pc = "returned", !.watermark = watermark,
                                   !.client = close(@), !.conn = close(@)]
    /\ UNCHANGED <<probe, settings, config, clock, api, flow, iter, get, ledger,
                   trakt, hist>>

\* HTTPStatusError from _get or ValidationError from the schema gate leaves the
\* generator, ingest_reviews, the with block, the finally block, the task and,
\* uncaught in the for loop of steam_reviews_flow, the flow
ingest_abort ==
    /\ task.pc = "running"
    /\ get.pc = "raised" \/ iter.pc = "raised"
    /\ LET watermark == [app_id |-> task.app_id,
                         last_cursor |-> task.last_cursor,
                         max_updated_at |-> task.max_updated_at,
                         load_id |-> flow.load_id,
                         recorded_at |-> flow.ingested_at]
       IN  load_watermarks' = IF task.conn
                              THEN AbortedIngest(load_watermarks, watermark)
                              ELSE load_watermarks
    /\ task' = [task EXCEPT !.pc = "failed", !.client = close(@), !.conn = close(@)]
    /\ ledger' = AbortedLedger(ledger, task.ledger0)
    /\ flow' = [flow EXCEPT !.pc = "failed"]
    /\ UNCHANGED <<probe, settings, config, clock, api, iter, get, trakt, hist>>

\* the run is cancelled while _get is in client.get or in time.sleep: the
\* exception raised there leaves the generator, ingest_reviews, the with block,
\* the finally block, the task and the flow
cancel ==
    /\ task.pc = "running"
    /\ get.pc = "call"
    /\ LET watermark == [app_id |-> task.app_id,
                         last_cursor |-> task.last_cursor,
                         max_updated_at |-> task.max_updated_at,
                         load_id |-> flow.load_id,
                         recorded_at |-> flow.ingested_at]
       IN  load_watermarks' = IF task.conn
                              THEN AbortedIngest(load_watermarks, watermark)
                              ELSE load_watermarks
    /\ get' = [get EXCEPT !.pc = "cancelled"]
    /\ task' = [task EXCEPT !.pc = "cancelled", !.client = close(@), !.conn = close(@)]
    /\ ledger' = AbortedLedger(ledger, task.ledger0)
    /\ flow' = [flow EXCEPT !.pc = "cancelled"]
    /\ UNCHANGED <<probe, settings, config, clock, api, iter, trakt, hist>>

\* ingest_app_reviews up to the first next() on the generator; when
\* build_review_schema raises (the schema file cannot be read), the with block
\* closes the client, the finally block the connection, and the exception
\* leaves the task and the flow
ingest_start ==
    /\ flow.pc = "loop"
    /\ task.pc = "idle"
    /\ flow.idx <= Len(config.app_ids)
    /\ \E resume_state \in ResumeStates(config.app_ids[flow.idx]), schema_built \in BOOLEAN :
        LET fresh == resume_state = NoResume
            page == IF fresh THEN 1 ELSE resume_state.page
            started == [IdleTask EXCEPT
                           !.pc = "running",
                           !.app_id = config.app_ids[flow.idx],
                           !.conn = config.warehouse,
                           !.client = TRUE,
                           !.resumed = ~fresh,
                           !.ledger0 = Len(ledger),
                           !.wm0 = Len(load_watermarks)]
        IN  IF schema_built
            THEN /\ task' = started
                 /\ iter' = [IdleIter EXCEPT
                        !.pc = "fetch",
                        !.cursor = IF fresh THEN "*" ELSE resume_state.cursor,
                        !.page = page]
                 /\ hist' = [NewHist EXCEPT !.page0 = page, !.changed = hist.changed]
                 /\ flow' = flow
            ELSE /\ fresh
                 /\ task' = [started EXCEPT !.pc = "failed", !.client = close(@),
                                            !.conn = close(@)]
                 /\ iter' = [IdleIter EXCEPT !.why = "build"]
                 /\ hist' = [NewHist EXCEPT !.page0 = page, !.changed = hist.changed]
                 /\ flow' = [flow EXCEPT !.pc = "failed"]
    /\ get' = IdleGet
    /\ UNCHANGED <<probe, settings, config, clock, api, ledger, load_watermarks, trakt>>

----------------------------------------------------------------------------
(* The flow: steam_reviews_flow *)

\* a new run: initialize_run, then ingested_at and load_id from the clock
flow_start ==
    /\ flow.pc \in {"idle", "complete", "failed", "cancelled"}
    /\ flow.run < flow.launches
    /\ clock' = clock + 1
    /\ ledger' = IF config.warehouse THEN prepare_bronze_storage(ledger) ELSE ledger
    /\ load_watermarks' = IF config.warehouse
                          THEN prepare_bronze_storage(load_watermarks)
                          ELSE load_watermarks
    /\ flow' = [pc |-> "loop", launches |-> flow.launches, run |-> flow.run + 1,
                load_id |-> LoadId(clock + 1), ingested_at |-> clock + 1,
                idx |-> 1, watermarks |-> <<>>,
                ledger0 |-> Len(ledger'), wm0 |-> Len(load_watermarks'),
                natural |-> TRUE,
                prevNatural |-> flow.pc = "complete" /\ flow.natural,
                prev_load_id |-> IF flow.run > 0 THEN flow.load_id ELSE -1]
    /\ task' = IdleTask
    /\ iter' = IdleIter
    /\ get' = IdleGet
    /\ UNCHANGED <<probe, settings, config, api, trakt, hist>>

\* "watermarks.append(watermark)" and the next app_id
flow_next ==
    /\ flow.pc = "loop"
    /\ task.pc = "returned"
    /\ flow' = [flow EXCEPT !.idx = @ + 1,
                            !.watermarks = Append(@, task.watermark),
                            !.natural = @ /\ iter.why # "cap"]
    /\ task' = [IdleTask EXCEPT !.watermark = task.watermark]
    /\ iter' = IdleIter
    /\ UNCHANGED <<probe, settings, config, clock, api, get, ledger, load_watermarks,
                   trakt, hist>>

\* the for loop is over: log_watermarks and return
flow_complete ==
    /\ flow.pc = "loop"
    /\ task.pc = "idle"
    /\ flow.idx > Len(config.app_ids)
    /\ flow' = [flow EXCEPT !.pc = "complete"]
    /\ UNCHANGED <<probe, settings, config, clock, api, task, iter, get, ledger,
                   load_watermarks, trakt, hist>>

\* between two runs the reviews at the source change
source_changes ==
    /\ flow.pc \in {"complete", "failed"}
    /\ flow.run < flow.launches
    /\ api # [k \in Apps \X Cursors |-> Unset]
    /\ api' = [k \in Apps \X Cursors |-> Unset]
    /\ hist' = [hist EXCEPT !.changed = TRUE]
    /\ UNCHANGED <<probe, settings, config, clock, flow, task, iter, get, ledger,
                   load_watermarks, trakt>>

Next ==
    \/ flow_start
    \/ ingest_start
    \/ iter_fetch
    \/ get_attempt
    \/ iter_page
    \/ iter_yield
    \/ ingest_consume
    \/ iter_advance
    \/ ingest_finish
    \/ ingest_abort
    \/ cancel
    \/ flow_next
    \/ flow_complete
    \/ source_changes

Spec == Init /\ [][Next]_vars

----------------------------------------------------------------------------
(* The Trakt asset: bronze_trakt_comments over TraktClient.iter_comments *)

InitTrakt ==
    /\ settings \in {Settings(n) : n \in 0..MaxRetriesBound}
    /\ config = Config(<<>>, 1, FALSE)
    /\ clock = 0
    /\ api = [k \in Apps \X Cursors |-> Unset]
    /\ flow = [pc |-> "idle", launches |-> 0, run |-> 0, load_id |-> 0,
               ingested_at |-> 0, idx |-> 0, watermarks |-> <<>>,
               ledger0 |-> 0, wm0 |-> 0, natural |-> FALSE, prevNatural |-> FALSE,
               prev_load_id |-> -1]
    /\ task = IdleTask
    /\ iter = IdleIter
    /\ get = IdleGet
    /\ ledger = <<>>
    /\ load_watermarks = <<>>
    /\ trakt = IdleTrakt
    /\ hist = NewHist
    /\ probe = IdleProbe

\* the asset up to the first next() on iter_comments: client, schema, page = 1;
\* build_comment_schema is called before the try block, so when it raises the
\* exception leaves the asset past "finally: client.close()"
trakt_start ==
    /\ trakt.pc = "idle"
    /\ \E schema_built \in BOOLEAN :
          trakt' = IF schema_built
                   THEN [IdleTrakt EXCEPT !.pc = "fetch", !.page = 1, !.client = TRUE]
                   ELSE [IdleTrakt EXCEPT !.pc = "failed", !.client = TRUE,
                                          !.why = "build"]
    /\ UNCHANGED <<probe, settings, config, clock, api, flow, task, iter, get, ledger,
                   load_watermarks, hist>>

\* top of the while loop of iter_comments: _get(resource_path, page)
trakt_fetch ==
    /\ trakt.pc = "fetch"
    /\ trakt.page <= MaxTraktPage
    /\ trakt' = [trakt EXCEPT !.pc = "wait"]
    /\ get' = NewCall(get)
    /\ UNCHANGED <<probe, settings, config, clock, api, flow, task, iter, ledger,
                   load_watermarks, hist>>

\* from response.json() to the first yield: schema gate, empty page
trakt_page ==
    /\ trakt.pc = "wait"
    /\ get.pc = "returned"
    /\ LET payload == get.payload.reviews
       IN  trakt' =
             IF ~GatePasses(payload)
             THEN [trakt EXCEPT !.pc = "raised", !.payload = payload, !.why = "schema"]
             ELSE IF payload = <<>>
             THEN [trakt EXCEPT !.pc = "done", !.payload = payload]
             ELSE [trakt EXCEPT !.pc = "emit", !.payload = payload, !.i = 1]
    /\ get' = [get EXCEPT !.pc = "idle"]
    /\ UNCHANGED <<probe, settings, config, clock, api, flow, task, iter, ledger,
                   load_watermarks, hist>>

\* stamp comment i and yield it into list(...); after the last one page += 1
trakt_yield ==
    /\ trakt.pc = "emit"
    /\ LET comment == [k \in DOMAIN trakt.payload[trakt.i] \cup {"fetched_at"} |->
                          IF k = "fetched_at" THEN clock ELSE trakt.payload[trakt.i][k]]
       IN  trakt' =
             IF trakt.i < Len(trakt.payload)
             THEN [trakt EXCEPT !.collected = Append(@, comment), !.i = @ + 1]
             ELSE [trakt EXCEPT !.collected = Append(@, comment), !.pc = "fetch",
                                !.page = @ + 1]
    /\ UNCHANGED <<probe, settings, config, clock, api, flow, task, iter, get, ledger,
                   load_watermarks, hist>>

\* the generator is exhausted: client.close(), _write_jsonl, return
trakt_finish ==
    /\ trakt.pc = "done"
    /\ trakt' = [trakt EXCEPT !.pc = "written", !.client = FALSE,
                              !.rows = Len(trakt.collected)]
    /\ UNCHANGED <<probe, settings, config, clock, api, flow, task, iter, get, ledger,
                   load_watermarks, hist>>

\* an exception leaves list(...): the finally block closes the client
trakt_abort ==
    /\ trakt.pc \in {"wait", "raised"}
    /\ get.pc = "raised" \/ trakt.pc = "raised"
    /\ trakt' = [trakt EXCEPT !.pc = "failed", !.client = FALSE]
    /\ UNCHANGED <<probe, settings, config, clock, api, flow, task, iter, get, ledger,
                   load_watermarks, hist>>

NextTrakt ==
    \/ trakt_start
    \/ trakt_fetch
    \/ get_attempt
    \/ trakt_page
    \/ trakt_yield
    \/ trakt_finish
    \/ trakt_abort

\* the process keeps running and the endpoint answers every request
TraktSpec == InitTrakt /\ [][NextTrakt]_vars /\ WF_vars(NextTrakt)

----------------------------------------------------------------------------
(* compute_hash on its own: two dicts, each given by its items as inserted *)

MaxHashKeys == 2      \* most keys of a hashed dict

HashFields == {"recommendationid", "timestamp_updated", "voted_up"}
HashValues == {"1", "2"}

\* a Python dict: (key, value) items in insertion order, no key twice
OrderedDicts ==
    { items \in UNION { [1..n -> HashFields \X HashValues] : n \in 1..MaxHashKeys } :
        \A m, n \in 1..Len(items) : (m # n) => items[m][1] # items[n][1] }

\* the mapping a dict stands for, its insertion order forgotten
DictOf(items) ==
    [k \in {items[n][1] : n \in 1..Len(items)} |->
        (CHOOSE v \in HashValues : \E n \in 1..Len(items) : items[n] = <<k, v>>)]

json_dumps_AsInserted(items) == items

\* json.dumps(payload, sort_keys=True, ensure_ascii=False): the items in key
\* order, wherever they stand in the dict
json_dumps(items) ==
    LET IsKey(k) == \E n \in 1..Len(items) : items[n][1] = k
        keys == SelectSeq(KeyOrder, IsKey)
    IN  [n \in 1..Len(keys) |-> <<keys[n], DictOf(items)[keys[n]]>>]

InitHash ==
    /\ InitTrakt
    /\ settings = Settings(0)

\* a caller holds two dicts
hash_inputs ==
    /\ probe.pc = "idle"
    /\ \E a, b \in OrderedDicts :
          probe' = [IdleProbe EXCEPT !.pc = "ready", !.a = a, !.b = b]
    /\ UNCHANGED <<settings, config, clock, api, flow, task, iter, get, ledger,
                   load_watermarks, trakt, hist>>

\* compute_hash of each: the digest of the serialisation, SHA-256 taken as
\* injective
hash_compute ==
    /\ probe.pc = "ready"
    /\ probe' = [probe EXCEPT !.pc = "hashed",
                              !.hash_a = json_dumps(probe.a),
                              !.hash_b = json_dumps(probe.b)]
    /\ UNCHANGED <<settings, config, clock, api, flow, task, iter, get, ledger,
                   load_watermarks, trakt, hist>>

NextHash ==
    \/ hash_inputs
    \/ hash_compute

HashSpec == InitHash /\ [][NextHash]_vars

----------------------------------------------------------------------------
(* Properties *)

\* a review as the endpoint served it: the enrichment keys taken away
Source(review) ==
    [k \in DOMAIN review \ {"app_id", "page", "cursor", "fetched_at"} |-> review[k]]

\* the largest parsed timestamp among the values, NoTime when none parses
MaxTime(values) ==
    LET parsed == {parse_review_timestamp(v) : v \in values} \ {NoTime}
    IN  IF parsed = {} THEN NoTime ELSE Max(parsed)

\* the rows the current ingestion of an entity appended to the ledger
WrittenRows == SubSeq(ledger, task.ledger0 + 1, Len(ledger))

\* C1: against a server that answers every request with 429, one call of _get
\* issues exactly max_retries + 1 requests and then raises; it never issues one
\* more and never returns the 429 answer to its caller.
C1_RetryExhaustion ==
    /\ get.requests <= settings.max_retries + 1
    /\ (get.pc = "call" /\ get.requests > 0) =>
          (get.status = 429 /\ get.requests <= settings.max_retries)
    /\ (get.pc = "raised" /\ get.status = 429) =>
          get.requests = settings.max_retries + 1
    /\ get.pc = "returned" => get.status # 429

C1_Witness ==
    /\ settings.max_retries = 2
    /\ get.pc = "raised"
    /\ get.status = 429
    /\ get.requests = 3

\* the (natural_key, hash_payload) pairs of an entity's rows
Pairs(rows, app_id) ==
    { <<rows[n].recommendationid, rows[n].hash_payload>> :
        n \in {r \in 1..Len(rows) : rows[r].appid = app_id} }

\* C2: an entity ingested from the stream start and then ingested again from
\* the cursor of the watermark that first run stored, the source unchanged,
\* leaves the (natural_key, hash_payload) pairs the first run alone left.
C2_IdempotentResumption ==
    ( /\ task.pc = "returned"
      /\ task.resumed
      /\ config.warehouse
      /\ flow.prevNatural
      /\ iter.why # "cap"
      /\ ~hist.changed )
    => Pairs(ledger, task.app_id) = Pairs(SubSeq(ledger, 1, flow.ledger0), task.app_id)

\* C3: two ledger rows written in different runs for the same natural key with
\* every source-provided field unchanged carry the same hash_payload.
C3_HashStableAcrossRuns ==
    \A m, n \in 1..Len(ledger) :
        ( /\ ledger[m].ingested_at # ledger[n].ingested_at
          /\ ledger[m].appid = ledger[n].appid
          /\ ledger[m].recommendationid = ledger[n].recommendationid
          /\ Source(ledger[m].payload) = Source(ledger[n].payload) )
        => ledger[m].hash_payload = ledger[n].hash_payload

\* C4: the watermark's max_updated_at is the maximum parsed update timestamp of
\* the records the ingestion wrote to the ledger; a record without natural key
\* is not written and does not move it.
C4_SkipAccounting ==
    (task.pc = "returned" /\ config.warehouse) =>
        /\ \A n \in 1..Len(WrittenRows) : WrittenRows[n].recommendationid # None
        /\ task.watermark.max_updated_at =
              MaxTime({ Get(WrittenRows[n].payload, "timestamp_updated") :
                          n \in 1..Len(WrittenRows) })

\* C5: when the ingestion of one entity of the batch fails on a fatal fetch
\* error or a schema violation, every other entity of the list still gets its
\* watermark in that run.
C5_SiblingIsolation ==
    (flow.pc = "failed" /\ config.warehouse /\ (get.pc = "raised" \/ iter.pc = "raised")) =>
        \A n \in 1..Len(config.app_ids) :
            config.app_ids[n] # task.app_id =>
                \E w \in flow.wm0 + 1..Len(load_watermarks) :
                    /\ load_watermarks[w].appid = config.app_ids[n]
                    /\ load_watermarks[w].load_id = flow.load_id

FirstPageEmitted ==
    LET OfFirst(review) == review["page"] = hist.page0
        firsts == SelectSeq(hist.emitted, OfFirst)
    IN  [n \in 1..Len(firsts) |-> Source(firsts[n])]

\* C7: once the answer to the request made with cursor c names c again as the
\* next cursor, c being the cursor the answer before it had named, no further
\* request is issued, the driver never returns to fetching, and every review
\* of the first page has been emitted exactly once.
C7_StallTermination ==
    /\ [](hist.stall => (iter.pc # "fetch" /\ FirstPageEmitted = hist.first))
    /\ [][(hist.stall /\ hist'.stall) => hist'.reqs = hist.reqs]_vars

C7_Witness ==
    /\ hist.stall
    /\ iter.pc = "done"
    /\ iter.why = "stall"
    /\ iter.page < config.max_pages
    /\ Len(hist.emitted) > Len(hist.first)

\* the schema gate raised on the page in get.payload
GateRaised == \E n \in 1..Len(get.payload.reviews) : ~SchemaValid(get.payload.reviews[n])

\* no request is issued after a page answer that meets a termination rule
NoRequestAfterTerminal ==
    [][(hist.term /\ task.pc = "running" /\ task'.pc = "running")
          => hist'.reqs = hist.reqs]_vars

\* after the last review of a page that meets no termination rule the driver
\* takes the next cursor, counts the page and goes to fetch
AdvanceStep ==
    [][(iter.pc = "after" /\ ~hist.term /\ iter' # iter)
          => /\ iter'.pc = "fetch"
             /\ iter'.cursor = iter.next_cursor
             /\ iter'.page = iter.page + 1]_vars

\* C8 as stated: the driver issues no request after a page answer with
\* success # 1, an empty item list, no next cursor, the next cursor equal to
\* the request's cursor or the page cap reached, and after every other page
\* answer it takes the next cursor, counts the page and requests the next page.
C8_Original == (iter.pc \in {"done", "raised"}) => hist.term

\* C8 amended: ... and after every other page answer whose reviews all pass the
\* schema gate it takes the next cursor, counts the page and requests the
\* next page.
C8_TerminationRules ==
    /\ NoRequestAfterTerminal
    /\ AdvanceStep
    /\ [](iter.pc = "done" => hist.term)
    /\ [](iter.pc = "raised" => GateRaised)
    /\ []((iter.pc \in {"emit", "yielded", "after"} /\ ~hist.term) => ~GateRaised)

C8_Witness ==
    /\ iter.pc = "fetch"
    /\ iter.page = 2
    /\ iter.cursor = "a+b"
    /\ ~hist.term

\* C9: when the stream ends normally the watermark carries as last_cursor the
\* cursor with which the last emitted page was requested and as
\* max_updated_at the largest parseable update timestamp of the reviews of the
\* run; it is the row persisted; for "*" -> "abc" -> "abc" with two reviews on
\* page 1 and an empty page 2 the ledger gets 2 rows and last_cursor is "*".
C9_WatermarkDerivation ==
    task.pc = "returned" =>
        /\ task.watermark.last_cursor = hist.from
        /\ hist.emitted = <<>> => task.watermark.last_cursor = None
        /\ task.watermark.max_updated_at =
              MaxTime({ Get(hist.emitted[n], "timestamp_updated") :
                          n \in 1..Len(hist.emitted) })
        /\ config.warehouse =>
              /\ Len(load_watermarks) = task.wm0 + 1
              /\ load_watermarks[Len(load_watermarks)] =
                    [appid |-> task.app_id,
                     load_id |-> flow.load_id,
                     cursor |-> task.watermark.last_cursor,
                     max_updated_at |-> task.watermark.max_updated_at,
                     recorded_at |-> flow.ingested_at]
        /\ ( /\ config.warehouse
             /\ ~task.resumed
             /\ config.max_pages >= 2
             /\ api[<<task.app_id, "*">>] =
                   [success |-> 1, reviews |-> BodyTwo, cursor |-> "abc"]
             /\ api[<<task.app_id, "abc">>] =
                   [success |-> 1, reviews |-> <<>>, cursor |-> "abc"] )
           => /\ Len(WrittenRows) = 2
              /\ task.watermark.last_cursor = "*"
              /\ task.watermark.max_updated_at = 2

C9_Witness ==
    /\ task.pc = "returned"
    /\ config.warehouse
    /\ ~task.resumed
    /\ api[<<task.app_id, "*">>] = [success |-> 1, reviews |-> BodyTwo, cursor |-> "abc"]
    /\ api[<<task.app_id, "abc">>] = [success |-> 1, reviews |-> <<>>, cursor |-> "abc"]
    /\ Len(WrittenRows) = 2
    /\ task.watermark.last_cursor = "*"

\* C10: an ingestion that aborts on a fatal fetch failure or on a schema
\* violation persists no watermark row: the watermark table is as it was when
\* the ingestion began.
C10_NoWatermarkOnAbort ==
    task.pc = "failed" => Len(load_watermarks) = task.wm0

C10_Witness ==
    /\ task.pc = "failed"
    /\ iter.pc = "raised"
    /\ config.warehouse
    /\ Len(WrittenRows) > 0

\* C11: when a review of a fetched page fails validation the driver raises at
\* once, no review of that page is emitted or written to the ledger, nothing
\* is requested or written afterwards, and the ingestion ends as failed.
C11_SchemaFailFast ==
    /\ []((GateRaised /\ task.pc = "running" /\ get.pc = "idle") => iter.pc = "raised")
    /\ [](iter.why = "schema" =>
            /\ task.pc \in {"running", "failed"}
            /\ \A n \in 1..Len(hist.emitted) :
                  ~(hist.emitted[n]["page"] = iter.page
                      /\ hist.emitted[n]["cursor"] = iter.cursor)
            /\ \A n \in 1..Len(WrittenRows) :
                  ~(WrittenRows[n].payload["page"] = iter.page
                      /\ WrittenRows[n].payload["cursor"] = iter.cursor))
    /\ [][(iter.why = "schema" /\ iter'.why = "schema")
            => /\ hist'.reqs = hist.reqs
               /\ hist'.emitted = hist.emitted
               /\ ledger' = ledger
               /\ load_watermarks' = load_watermarks]_vars
    /\ [][(iter.why = "schema" /\ task.pc = "running" /\ task' # task)
            => (task'.pc = "failed" /\ flow'.pc = "failed")]_vars

C11_Witness ==
    /\ iter.why = "schema"
    /\ task.pc = "failed"
    /\ iter.page = 2
    /\ Len(WrittenRows) = 2
    /\ hist.reqs = 2

\* C12: each wait before a retry of a 429 answer is the Retry-After value in
\* seconds when the answer carried the header, whatever backoff_seconds is,
\* and backoff_seconds times the attempt number counted from 1 otherwise; the
\* clock advances by at least that wait before the next request.
C12_BackoffWait ==
    /\ [](\A n \in 1..Len(get.sleeps) :
            /\ get.retry_afters[n] = "3" => get.sleeps[n] = 3
            /\ get.retry_afters[n] = "0" => get.sleeps[n] = 0
            /\ get.retry_afters[n] = None =>
                  get.sleeps[n] = settings.backoff_seconds * n)
    /\ [][(Len(get'.sleeps) = Len(get.sleeps) + 1)
            => clock' - clock >= get'.sleeps[Len(get'.sleeps)] * TicksPerSecond]_vars

C12_Witness ==
    /\ get.retry_afters = <<"3", None>>
    /\ get.sleeps = <<3, 4>>
    /\ get.pc = "call"

\* C13: an answer whose status is neither 2xx nor 429 makes _get raise at that
\* request, first or after retries, with no sleep after it and no request
\* after it.
C13_FatalNotRetried ==
    /\ [](get.status = 500 =>
            (get.pc = "raised" /\ Len(get.sleeps) = get.requests - 1))
    /\ [][(get.pc = "raised" /\ get' # get) => get' = IdleGet]_vars
    /\ [][(get.pc = "raised" /\ hist'.reqs # hist.reqs) => hist'.reqs = 0]_vars

C13_Witness ==
    /\ get.pc = "raised"
    /\ get.status = 500
    /\ get.requests = 3
    /\ Len(get.sleeps) = 2

\* C14: the ledger writer returns false (None counted as false) and adds no
\* row for a record without entity id or natural key, and returns true and
\* adds exactly one row for every other record.
C14_LedgerWriterSkip ==
    ( /\ task.pc \in {"running", "returned"}
      /\ task.written # "uncalled"
      /\ iter.pc # "yielded" )
    => LET review == hist.emitted[Len(hist.emitted)]
           lacks == Get(review, "app_id") = None
                       \/ Get(review, "recommendationid") = None
       IN  /\ lacks => (task.written \in {"False", None} /\ Len(ledger) = task.before)
           /\ ~lacks => (task.written = "True" /\ Len(ledger) = task.before + 1)

\* a is an initial part of b
IsPrefix(a, b) == Len(a) <= Len(b) /\ SubSeq(b, 1, Len(a)) = a

\* C15: no step of any run modifies or removes a row of the ledger or of the
\* watermark table; a step can only add rows behind the existing ones.
C15_AppendOnly ==
    [][IsPrefix(ledger, ledger') /\ IsPrefix(load_watermarks, load_watermarks')]_vars

C15_Witness ==
    /\ flow.run = 2
    /\ flow.ledger0 > 0
    /\ flow.wm0 > 0
    /\ Len(ledger) > flow.ledger0
    /\ Len(load_watermarks) > flow.wm0

\* C16: when the stream of an entity ends with no record written to the
\* ledger, one watermark row is recorded with the run's load_id and
\* recorded_at and with cursor and max_updated_at null.
C16_EmptyRunWatermark ==
    (task.pc = "returned" /\ config.warehouse /\ Len(WrittenRows) = 0) =>
        /\ Len(load_watermarks) = task.wm0 + 1
        /\ load_watermarks[Len(load_watermarks)] =
              [appid |-> task.app_id,
               load_id |-> flow.load_id,
               cursor |-> None,
               max_updated_at |-> NoTime,
               recorded_at |-> flow.ingested_at]

\* C17: each completed ingestion adds exactly one watermark row, behind the
\* ledger rows of that ingestion, and no two watermark rows carry the same
\* (entity id, load_id).
C17_OneWatermarkPerEntityRun ==
    /\ (task.pc = "returned" /\ config.warehouse) =>
          Len(load_watermarks) = task.wm0 + 1
    /\ \A m, n \in 1..Len(load_watermarks) :
          (m # n) =>
              <<load_watermarks[m].appid, load_watermarks[m].load_id>> #
              <<load_watermarks[n].appid, load_watermarks[n].load_id>>

\* C18: when the ingestion of an entity has ended, in success or in failure,
\* the HTTP client it acquired is closed.
C18_HandleRelease ==
    trakt.pc \in {"written", "failed"} => ~trakt.client

\* C19: while the request for a later page is in flight, every record of the
\* pages before it has been written to the consumer's output.
C19_StrictPageSequencing ==
    (trakt.pc = "wait" /\ trakt.page > 1) => trakt.rows >= Len(trakt.collected)

\* C20: load_id and ingested_at are fixed when the run starts and every ledger
\* row and every watermark the run writes, for every entity of the batch,
\* carries them.
C20_RunScopedLoadId ==
    /\ [](flow.run > 0 =>
            /\ flow.load_id = LoadId(flow.ingested_at)
            /\ \A n \in flow.ledger0 + 1..Len(ledger) :
                  /\ ledger[n].load_id = flow.load_id
                  /\ ledger[n].ingested_at = flow.ingested_at
            /\ \A n \in flow.wm0 + 1..Len(load_watermarks) :
                  /\ load_watermarks[n].load_id = flow.load_id
                  /\ load_watermarks[n].recorded_at = flow.ingested_at
            /\ \A n \in 1..Len(flow.watermarks) :
                  /\ flow.watermarks[n].load_id = flow.load_id
                  /\ flow.watermarks[n].recorded_at = flow.ingested_at)
    /\ [][(flow'.run = flow.run)
            => (flow'.load_id = flow.load_id /\ flow'.ingested_at = flow.ingested_at)]_vars

C20_Witness ==
    /\ flow.pc = "complete"
    /\ config.app_ids = <<"620", "730">>
    /\ Len(load_watermarks) = 2
    /\ \E m, n \in 1..Len(ledger) : ledger[m].appid = "620" /\ ledger[n].appid = "730"
    /\ clock >= flow.ingested_at + 2

\* C21: a run that starts later has a load_id strictly greater than the run
\* that started before it.
C21_LoadIdIncreases ==
    flow.run >= 2 => flow.load_id > flow.prev_load_id

\* how many of the emitted reviews carry a natural key
EmittedWithKey ==
    Cardinality({ n \in 1..Len(hist.emitted) :
                    Get(hist.emitted[n], "recommendationid") # None })

\* the update timestamps among the emitted reviews that int() accepts
EmittedTimes ==
    { IntOf(hist.emitted[n]["timestamp_updated"]) :
        n \in { m \in 1..Len(hist.emitted) :
                  "timestamp_updated" \in DOMAIN hist.emitted[m] } } \ {-1}

\* C22: a page answer with success # 1 ends the stream without raising: no
\* review of that answer is emitted, the reviews of the pages before it stay
\* emitted and written, and the watermark computed from them is persisted.
C22_EnvelopeGracefulEnd ==
    /\ []((get.payload.success = 0 /\ get.pc = "idle"
              /\ task.pc \in {"running", "returned"})
            => (iter.pc = "done" /\ iter.why = "envelope"))
    /\ [](iter.why = "envelope" =>
            /\ task.pc \in {"running", "returned"}
            /\ \A n \in 1..Len(hist.emitted) :
                  ~(hist.emitted[n]["page"] = iter.page
                      /\ hist.emitted[n]["cursor"] = iter.cursor)
            /\ config.warehouse => Len(WrittenRows) = EmittedWithKey)
    /\ []((iter.why = "envelope" /\ task.pc = "returned") =>
            /\ task.watermark.last_cursor = hist.from
            /\ task.watermark.max_updated_at =
                  (IF EmittedTimes = {} THEN NoTime ELSE Max(EmittedTimes))
            /\ config.warehouse =>
                  /\ Len(load_watermarks) = task.wm0 + 1
                  /\ load_watermarks[Len(load_watermarks)].cursor = hist.from
                  /\ load_watermarks[Len(load_watermarks)].appid = task.app_id)
    /\ [][(iter.why = "envelope" /\ iter'.why = "envelope")
            => (ledger' = ledger /\ hist'.emitted = hist.emitted)]_vars

C22_Witness ==
    /\ iter.why = "envelope"
    /\ task.pc = "returned"
    /\ iter.page = 2
    /\ get.payload.reviews = BodyTwo
    /\ Len(WrittenRows) = 2
    /\ Len(load_watermarks) = task.wm0 + 1
    /\ task.watermark.last_cursor = "*"

\* C23: a review whose update timestamp cannot be parsed is written with a
\* null updated_at and does not abort the ingestion; the watermark's
\* max_updated_at is the maximum over the timestamps that parse, null if none.
C23_MalformedTimestamp ==
    /\ \A n \in 1..Len(ledger) :
          IntOf(Get(ledger[n].payload, "timestamp_updated")) < 0 =>
              ledger[n].updated_at = NoTime
    /\ (task.pc \in {"running", "returned"} /\ config.warehouse /\ iter.pc # "yielded")
          => Len(WrittenRows) = EmittedWithKey
    /\ task.pc = "failed" =>
          (get.pc = "raised" \/ iter.pc = "raised" \/ iter.why = "build")
    /\ task.pc = "returned" =>
          task.watermark.max_updated_at =
              (IF EmittedTimes = {} THEN NoTime ELSE Max(EmittedTimes))

C23_Witness ==
    /\ task.pc = "returned"
    /\ Len(WrittenRows) = 3
    /\ WrittenRows[3].recommendationid = "r3"
    /\ WrittenRows[3].payload["timestamp_updated"] = "soon"
    /\ WrittenRows[3].updated_at = NoTime

\* C24: two dicts get the same digest exactly when they hold the same keys
\* with the same values, in whatever order the keys were inserted.
C24_HashDeterminism ==
    probe.pc = "hashed" =>
        /\ (DictOf(probe.a) = DictOf(probe.b)) <=> (probe.hash_a = probe.hash_b)
        /\ probe.hash_a = compute_hash(DictOf(probe.a))

C24_Witness ==
    /\ probe.pc = "hashed"
    /\ Len(probe.a) = 2
    /\ probe.a # probe.b
    /\ DictOf(probe.a) = DictOf(probe.b)
    /\ probe.hash_a = probe.hash_b

C26_Enrichment ==
    \A n \in 1..Len(trakt.collected) :
        {"app_id", "page", "cursor", "fetched_at"} \subseteq DOMAIN trakt.collected[n]

\* the reviews emitted for page max_pages, as the endpoint served them
CapPageEmitted ==
    LET OfCap(review) == review["page"] = config.max_pages
        caps == SelectSeq(hist.emitted, OfCap)
    IN  [n \in 1..Len(caps) |-> Source(caps[n])]

C28_RetryBudgetPerRequest ==
    /\ get.requests = get.attempt
    /\ get.attempt <= settings.max_retries + 1
    /\ (Len(get.sleeps) >= 1 /\ get.retry_afters[1] = None) =>
          get.sleeps[1] = settings.backoff_seconds
    /\ (get.pc = "raised" /\ get.status = 429) =>
          Len(get.sleeps) = settings.max_retries

C28_Witness ==
    /\ settings.max_retries = 2
    /\ iter.page = 2
    /\ get.pc = "returned"
    /\ Len(get.sleeps) = 2
    /\ hist.reqs = 2 * (settings.max_retries + 1)

\* C29: an ingestion that aborts leaves the ledger and the watermark table as
\* they were at the abort: the rows of its processed pages stay, under the
\* run's load_id, and the rows of the entities before it are untouched.
C29_NoRollbackOnAbort ==
    /\ [][(task.pc = "running" /\ task'.pc = "failed")
            => (ledger' = ledger /\ load_watermarks' = load_watermarks)]_vars
    /\ [][(task.pc = "failed" /\ task'.pc = "failed")
            => (ledger' = ledger /\ load_watermarks' = load_watermarks)]_vars
    /\ []((task.pc = "failed" /\ config.warehouse) =>
            /\ Len(WrittenRows) = EmittedWithKey
            /\ \A n \in 1..Len(WrittenRows) :
                  /\ WrittenRows[n].load_id = flow.load_id
                  /\ WrittenRows[n].appid = task.app_id)

C29_Witness ==
    /\ task.pc = "failed"
    /\ config.app_ids = <<"620", "730">>
    /\ task.app_id = "730"
    /\ iter.page = 2
    /\ Len(WrittenRows) = 2
    /\ task.ledger0 = 2
    /\ task.wm0 = 1

====
